---- MODULE Spec2Model ----
(***************************************************************************)
(* Model of the enflag binding engine (src/binding.go, src/err.go,         *)
(* src/Readme.md [internal/parsers]) and of the older Bind of              *)
(* src/binder.go where it differs (variable build).                        *)
(*                                                                         *)
(* A raw string is a tuple of one-character strings, so that splitting and *)
(* parsing are computed character by character as the code does.           *)
(* The flag registry is the standard library's flag.CommandLine            *)
(* (ExitOnError): Parse() walks the command line in order and exits with   *)
(* status 2 on the first failing flag.                                     *)
(*                                                                         *)
(* handleVar and handleSlice of src/binding.go write their diagnostic and  *)
(* consult isTestEnv themselves; no function under src/ calls handleError  *)
(* of src/err.go, so no action below changes handlerCalls.                 *)
(***************************************************************************)
EXTENDS Integers, Sequences, FiniteSets, TLC

\* ------------------------------------------------------------------ bounds
MaxArgs   == 2    \* flag occurrences on the command line of a one-variable program
MaxParses == 2    \* calls of Parse() in one run
MaxExtArgs == 1   \* flag occurrences on the command line of a settings program

\* ------------------------------------------------------------ input pools
EnvNames  == {"A", "B"}
FlagNames == {"a", "b"}

Empty == << >>

\* ------------------------------------------------------- scalar parser set
Digits == <<"0", "1", "2", "3", "4", "5", "6", "7", "8", "9">>

IsDigit(c) == \E i \in 1..10 : Digits[i] = c

DigitVal(c) == (CHOOSE i \in 1..10 : Digits[i] = c) - 1

Ok(v)   == [v |-> v, err |-> FALSE]
Fail(v) == [v |-> v, err |-> TRUE]

RECURSIVE DecValue(_)
DecValue(s) ==
    IF Len(s) = 0 THEN 0
    ELSE DecValue(SubSeq(s, 1, Len(s) - 1)) * 10 + DigitVal(s[Len(s)])

AllDigits(s) == Len(s) > 0 /\ \A i \in 1..Len(s) : IsDigit(s[i])

\* strconv.Atoi: optional sign, then decimal digits; 0 and an error otherwise
Atoi(s) ==
    LET signed == Len(s) > 0 /\ s[1] \in {"+", "-"}
        body   == IF signed THEN Tail(s) ELSE s
    IN  IF ~AllDigits(body) THEN Fail(0)
        ELSE IF signed /\ s[1] = "-" THEN Ok(0 - DecValue(body))
        ELSE Ok(DecValue(body))

TrueTokens ==
    { <<"1">>, <<"t">>, <<"T">>, <<"T", "R", "U", "E">>,
      <<"t", "r", "u", "e">>, <<"T", "r", "u", "e">> }

FalseTokens ==
    { <<"0">>, <<"f">>, <<"F">>, <<"F", "A", "L", "S", "E">>,
      <<"f", "a", "l", "s", "e">>, <<"F", "a", "l", "s", "e">> }

\* strconv.ParseBool
ParseBool(s) ==
    IF s \in TrueTokens THEN Ok(TRUE)
    ELSE IF s \in FalseTokens THEN Ok(FALSE)
    ELSE Fail(FALSE)

HasAt(s, sep, i) ==
    /\ i + Len(sep) - 1 <= Len(s)
    /\ \A k \in 1..Len(sep) : s[i + k - 1] = sep[k]

RECURSIVE IndexFrom(_, _, _)
IndexFrom(s, sep, i) ==
    IF i + Len(sep) - 1 > Len(s) THEN 0
    ELSE IF HasAt(s, sep, i) THEN i
    ELSE IndexFrom(s, sep, i + 1)

\* strings.Split
RECURSIVE Split(_, _)
Split(s, sep) ==
    IF Len(sep) = 0 THEN [i \in 1..Len(s) |-> <<s[i]>>]
    ELSE LET i == IndexFrom(s, sep, 1)
         IN  IF i = 0 THEN <<s>>
             ELSE <<SubSeq(s, 1, i - 1)>>
                  \o Split(SubSeq(s, i + Len(sep), Len(s)), sep)

NilIP == << >>

\* one field of a dotted quad: 1..3 digits, no leading zero, at most 255
OctetOk(f) ==
    /\ AllDigits(f)
    /\ Len(f) <= 3
    /\ (Len(f) > 1 => f[1] # "0")
    /\ DecValue(f) <= 255

\* net.ParseIP on the dotted-quad notation
ParseIP(s) ==
    LET Quad(f) == IF Len(f) = 4 /\ \A i \in 1..4 : OctetOk(f[i])
                   THEN [i \in 1..4 |-> DecValue(f[i])]
                   ELSE NilIP
    IN  Quad(Split(s, <<".">>))

\* parsers.IP
IP(s) ==
    LET Checked(ip) == IF ip = NilIP THEN Fail(NilIP) ELSE Ok(ip)
    IN  Checked(ParseIP(s))

\* a *net.IP value: nil, or the address of an instance and its content
NilPtr == [nil |-> TRUE, addr |-> 0, val |-> NilIP]

Ref(a, v) == [nil |-> FALSE, addr |-> a, val |-> v]

\* parsers.Ptr applied to parsers.IP; a is the address of the new instance
Ptr(s, a) ==
    LET Boxed(r) == [v |-> Ref(a, r.v), err |-> r.err]
    IN  Boxed(IP(s))

\* parsers.String
String(s) == Ok(s)

\* the parser of the README's VarFunc example: ParseInt(s, 10, 64), times ten
customParser(s) ==
    LET r == Atoi(s)
    IN  IF r.err THEN Fail(0) ELSE Ok(r.v * 10)

\* time layouts: time.RFC3339 (the value of TimeLayout), the four-digit and
\* the two-digit year
RFC3339 == "2006-01-02T15:04:05Z07:00"

TimeLayout == RFC3339

\* A time.Time is modelled by its year; the zero time is in year 1.
\* time.Parse(layout, s): layout "2006" takes exactly four digits, layout
\* "06" exactly two (69..99 are 19yy, 00..68 are 20yy); RFC3339 needs at
\* least twenty characters.  The zero time and an error otherwise.
Time(layout, s) ==
    CASE layout = "2006" ->
             IF Len(s) = 4 /\ AllDigits(s) THEN Ok(DecValue(s)) ELSE Fail(1)
      [] layout = "06" ->
             IF Len(s) = 2 /\ AllDigits(s)
             THEN Ok(IF DecValue(s) >= 69 THEN 1900 + DecValue(s) ELSE 2000 + DecValue(s))
             ELSE Fail(1)
      [] layout = RFC3339 -> Fail(1)

\* the parse type of a time.Time whose layout was fixed when Bind ran
TimeT(layout) ==
    CASE layout = "2006"  -> "time.Time(2006)"
      [] layout = "06"    -> "time.Time(06)"
      [] layout = RFC3339 -> "time.Time(RFC3339)"

LayoutOf(T) ==
    CASE T = "time.Time(2006)"    -> "2006"
      [] T = "time.Time(06)"      -> "06"
      [] T = "time.Time(RFC3339)" -> RFC3339

HexDigits == <<"0", "1", "2", "3", "4", "5", "6", "7", "8", "9",
               "a", "b", "c", "d", "e", "f">>

UpperHex == <<"0", "1", "2", "3", "4", "5", "6", "7", "8", "9",
              "A", "B", "C", "D", "E", "F">>

\* the value of character c as a digit of the given base, -1 if it is none
BaseDigit(c, base) ==
    LET hit == {i \in 1..base : HexDigits[i] = c \/ UpperHex[i] = c}
    IN  IF hit = {} THEN -1 ELSE (CHOOSE i \in hit : TRUE) - 1

RECURSIVE BaseValue(_, _)
BaseValue(s, base) ==
    IF Len(s) = 0 THEN 0
    ELSE BaseValue(SubSeq(s, 1, Len(s) - 1), base) * base + BaseDigit(s[Len(s)], base)

AllBaseDigits(s, base) ==
    Len(s) > 0 /\ \A i \in 1..Len(s) : BaseDigit(s[i], base) >= 0

\* strconv.ParseInt(s, 0, 64) on strings without underscores: optional sign,
\* then the base taken from the prefix (0x 16, 0b 2, 0o or a leading 0
\* eight, else ten); 0 and an error otherwise
ParseIntBase0(s) ==
    LET signed == Len(s) > 0 /\ s[1] \in {"+", "-"}
        body   == IF signed THEN Tail(s) ELSE s
        two    == Len(body) >= 2 /\ body[1] = "0"
        base   == IF two /\ body[2] \in {"x", "X"} THEN 16
                  ELSE IF two /\ body[2] \in {"b", "B"} THEN 2
                  ELSE IF two THEN 8 ELSE 10
        digits == IF two /\ body[2] \in {"x", "X", "b", "B", "o", "O"}
                  THEN SubSeq(body, 3, Len(body))
                  ELSE IF two THEN Tail(body) ELSE body
    IN  IF ~AllBaseDigits(digits, base) THEN Fail(0)
        ELSE IF signed /\ s[1] = "-" THEN Ok(0 - BaseValue(digits, base))
        ELSE Ok(BaseValue(digits, base))

\* ---------------------------------------------------------------- targets
\* the caller's variables and their declared Go types; customVar is bound
\* with VarFunc(&customVar, parser), the others with Var
Targets == {"port", "debug", "ids", "ip", "tags", "customVar", "ts"}

TypeOf(t) ==
    CASE t = "port"      -> "int"
      [] t = "debug"     -> "bool"
      [] t = "ids"       -> "[]int"
      [] t = "ip"        -> "*net.IP"
      [] t = "tags"      -> "[]string"
      [] t = "customVar" -> "VarFunc[int64]"
      [] t = "ts"        -> "time.Time"

\* what %T prints for a value of the type
TypeName(T) ==
    IF T = "VarFunc[int64]" THEN "int64"
    ELSE IF T \in {"time.Time(2006)", "time.Time(06)", "time.Time(RFC3339)"}
    THEN "time.Time"
    ELSE T

\* the zero value of a type
Zero(T) ==
    CASE T = "int"            -> 0
      [] T = "bool"           -> FALSE
      [] T = "[]int"          -> << >>
      [] T = "*net.IP"        -> NilPtr
      [] T = "[]string"       -> << >>
      [] T = "VarFunc[int64]" -> 0
      [] T = "time.Time"      -> 1

\* values offered to WithDefault
DefPool(T) ==
    CASE T = "int"            -> {5}
      [] T = "bool"           -> {TRUE}
      [] T = "[]int"          -> {<<9>>}
      [] T = "*net.IP"        -> {Ref(0, <<127, 0, 0, 1>>)}
      [] T = "[]string"       -> {<< <<"d">> >>}
      [] T = "VarFunc[int64]" -> {5}
      [] T = "time.Time"      -> {2000}

\* values the caller's variable may hold before it is bound
PriorPool(T) ==
    CASE T = "int"            -> {0, 3}
      [] T = "bool"           -> {FALSE}
      [] T = "[]int"          -> {<< >>, <<3>>}
      [] T = "*net.IP"        -> {NilPtr, Ref(0, <<10, 0, 0, 3>>)}
      [] T = "[]string"       -> {<< >>, << <<"p">> >>}
      [] T = "VarFunc[int64]" -> {0, 3}
      [] T = "time.Time"      -> {1}

\* separators offered to WithSliceSeparator on a variable of type T
SepPool(T) == IF T = "[]string" THEN {<<";">>} ELSE {}

\* layouts offered to WithTimeLayout on a variable of type T
LayoutPool(T) == IF T = "time.Time" THEN {"2006", "06"} ELSE {}

\* help texts offered to WithFlagUsage
UsagePool == {"help"}

Handlers == {"OnErrorExit", "OnErrorIgnore", "OnErrorLogAndContinue"}

\* SliceSeparator
SliceSeparator == <<",">>

VARIABLES
    build,             \* the version of Binding.Bind the program is built with
    env,               \* process environment: name -> raw string
    envSet,            \* the names present in the process environment
    ErrorHandlerFunc,  \* installed error policy
    isTestEnv,         \* test-mode switch
    desc,              \* per target: the Binding descriptor made by Var
    target,            \* per target: the value of the caller's variable
    flagSet,           \* flag.CommandLine: flag name -> registered callback
    output,            \* flag.CommandLine.Output(): lines written so far
    halt,              \* "running", "exit2" (os.Exit(2)) or "panic"
    heapTop,           \* number of instances allocated by the optional adapter
    declared,          \* the variables the program binds
    args,              \* os.Args[1:]: the flag occurrences of the command line
    parses,            \* completed calls of Parse
    failures,          \* history: parse failures, in order
    handlerCalls,      \* history: invocations of ErrorHandlerFunc, in order
    delivered,         \* history: per target, raw strings given to its callback
    afterBind,         \* history: per target, its value when Bind returned
    envParsed,         \* history: per target, raw strings Bind gave to its parser
    beforeBind         \* history: per target, its value when Bind was called

vars == <<build, env, envSet, ErrorHandlerFunc, isTestEnv, desc, target, flagSet,
          output, halt, heapTop, declared, args, parses, failures, handlerCalls,
          delivered, afterBind, envParsed, beforeBind>>

\* an unused slot of the flag set
NoFlag ==
    [t |-> "", T |-> "", sliceSep |-> Empty, timeLayout |-> "", usage |-> "",
     std |-> FALSE]

Registered(n) == n \in FlagNames /\ flagSet[n] # NoFlag

\* Var: a fresh descriptor
NewBinding(T) ==
    [state |-> "var", def |-> Zero(T), flagUsage |-> "",
     sliceSep |-> IF T = "VarFunc[int64]" THEN Empty ELSE SliceSeparator,
     timeLayout |-> IF T = "VarFunc[int64]" THEN "" ELSE TimeLayout,
     envName |-> "", flagName |-> ""]

NoBinding(T) == [NewBinding(T) EXCEPT !.state = "none"]

\* raw strings offered to the environment of a program binding a variable of
\* type T: zero and non-zero values, lists, malformed text
EnvPool(T) ==
    CASE T = "int"     -> { <<"0">>, <<"1">>, <<"x", ",", "1">> }
      [] T = "bool"    -> { <<"0">>, <<"1">>, <<"x", ",", "1">> }
      [] T = "[]int"   -> { <<"1">>, <<"1", ",", "0">>, <<"1", ",", "x">>, <<"x", ",", "1">> }
      [] T = "*net.IP" -> { <<"1", ".", "0", ".", "0", ".", "1">>, <<"x", ",", "1">> }
      [] T = "[]string"       -> { <<"x", ",", "1">>, <<"x", ";", "1">> }
      [] T = "VarFunc[int64]" -> { <<"1">>, <<"x", ",", "1">> }
      [] T = "time.Time"      -> { <<"2", "4">>, <<"2", "0", "2", "4">> }

\* raw strings offered to the command line of such a program
ArgPool(T) ==
    CASE T = "int"     -> { <<"0">>, <<"7">>, <<"x", ",", "7">> }
      [] T = "bool"    -> { <<"0">>, <<"t">>, <<"x", ",", "7">> }
      [] T = "[]int"   -> { <<"7">>, <<"7", ",", "0">>, <<"7", ",", "x">>, <<"x", ",", "7">> }
      [] T = "*net.IP" -> { <<"1", ".", "0", ".", "0", ".", "2">>, <<"x", ",", "7">> }
      [] T = "[]string"       -> { <<"y", ",", "7">>, <<"y", ";", "7">> }
      [] T = "VarFunc[int64]" -> { <<"7">>, <<"x", ",", "7">> }
      [] T = "time.Time"      -> { <<"2", "5">>, <<"2", "0", "2", "5">> }

\* command lines of at most n occurrences of the flags in names
ArgSeqs(names, pool, n) ==
    UNION {[1..k -> [name : names, raw : pool]] : k \in 0..n}

\* a program binding one variable t: any environment value under A (unset,
\* set to the empty string, or set to a value), B unset, any command line
\* over flag a; the older Bind of binder.go is explored on the []string variable
OneVar(t) ==
    /\ declared = {t}
    /\ build \in {"binding.go"} \cup (IF t = "tags" THEN {"binder.go"} ELSE {})
    /\ env \in [EnvNames -> EnvPool(TypeOf(t)) \cup {Empty}]
    /\ env["B"] = Empty
    /\ envSet \in {{n \in EnvNames : env[n] # Empty}, {"A"}}
    /\ args \in ArgSeqs({"a"}, ArgPool(TypeOf(t)), MaxArgs)
    /\ target \in {[u \in Targets |-> IF u = t THEN v ELSE Zero(TypeOf(u))] :
                     v \in PriorPool(TypeOf(t))}

\* a program binding two variables, both names of each kind in use
TwoVars ==
    /\ declared \in {{"port", "ids"}, {"ids", "ip"}}
    /\ build = "binding.go"
    /\ env = [A |-> <<"1">>, B |-> <<"x", ",", "1">>]
    /\ envSet = {"A", "B"}
    /\ args \in {<<[name |-> "a", raw |-> <<"7">>], [name |-> "b", raw |-> <<"7", ",", "0">>]>>,
                  <<[name |-> "b", raw |-> <<"x", ",", "7">>], [name |-> "a", raw |-> <<"0">>]>>}
    /\ target \in {[u \in Targets |-> IF u = "ids" THEN v ELSE Zero(TypeOf(u))] :
                     v \in PriorPool("[]int")}

\* the package and the process before the program's first call
Fresh ==
    /\ ErrorHandlerFunc = "OnErrorExit"
    /\ isTestEnv \in BOOLEAN
    /\ desc = [t \in Targets |-> NoBinding(TypeOf(t))]
    /\ flagSet = [n \in FlagNames |-> NoFlag]
    /\ output = << >>
    /\ halt = "running"
    /\ heapTop = 0
    /\ parses = 0
    /\ failures = << >>
    /\ handlerCalls = << >>
    /\ delivered = [t \in Targets |-> << >>]
    /\ afterBind = [t \in Targets |-> Zero(TypeOf(t))]
    /\ envParsed = [t \in Targets |-> << >>]
    /\ beforeBind = [t \in Targets |-> Zero(TypeOf(t))]

Init ==
    /\ (\E t \in Targets \ {"ts"} : OneVar(t)) \/ TwoVars
    /\ Fresh

\* Programs for the settings of a descriptor and for the older Bind: one
\* variable, bound under either version when it is a time.Time, under
\* binder.go when it is an int (the flag.IntVar fast path), under binding.go
\* when it is a []string; at most MaxExtArgs occurrences of flag a.
ExtArgPool(T) ==
    IF T = "int" THEN { <<"7">>, <<"0", "1", "0">>, <<"x", ",", "7">> } ELSE ArgPool(T)

ExtVar(t) ==
    /\ declared = {t}
    /\ build \in CASE t = "ts"   -> {"binding.go", "binder.go"}
                  [] t = "port" -> {"binder.go"}
                  [] t = "tags" -> {"binding.go"}
    /\ env \in [EnvNames -> EnvPool(TypeOf(t)) \cup {Empty}]
    /\ env["B"] = Empty
    /\ envSet = {n \in EnvNames : env[n] # Empty}
    /\ args \in ArgSeqs({"a"}, ExtArgPool(TypeOf(t)), MaxExtArgs)
    /\ target = [u \in Targets |-> Zero(TypeOf(u))]

InitExt ==
    /\ \E t \in {"ts", "port", "tags"} : ExtVar(t)
    /\ Fresh

\* ------------------------------------------------------------ type dispatch
IsSliceType(T) == T \in {"[]int", "[]string"}

\* the parser table with strconv.Atoi in place of the user's parser
Parser_BuiltinForCustom(T, s, top) ==
    CASE T = "int"     -> Atoi(s)
      [] T = "[]int"   -> Atoi(s)
      [] T = "bool"    -> ParseBool(s)
      [] T = "*net.IP" -> Ptr(s, top + 1)
      [] T = "[]string"       -> String(s)
      [] T = "VarFunc[int64]" -> Atoi(s)
      [] T = "time.Time" -> Time(desc["ts"].timeLayout, s)
      [] T \in {"time.Time(2006)", "time.Time(06)", "time.Time(RFC3339)"}
             -> Time(LayoutOf(T), s)

\* the parser Bind's type switch hands to handleVar / handleSlice; top is the
\* number of instances allocated so far.  The parse type "time.Time" is the
\* closure of binder.go that reads the descriptor's layout when it is called,
\* "time.Time(layout)" the parser binding.go makes from the layout when Bind
\* runs.
Parser(T, s, top) ==
    CASE T = "int"     -> Atoi(s)
      [] T = "[]int"   -> Atoi(s)
      [] T = "bool"    -> ParseBool(s)
      [] T = "*net.IP" -> Ptr(s, top + 1)
      [] T = "[]string"       -> String(s)
      [] T = "VarFunc[int64]" -> customParser(s)
      [] T = "time.Time" -> Time(desc["ts"].timeLayout, s)
      [] T \in {"time.Time(2006)", "time.Time(06)", "time.Time(RFC3339)"}
             -> Time(LayoutOf(T), s)

\* Bind's type switch with the case of *[]string filled in
Dispatch_StringSliceHandled(b, T) ==
    IF IsSliceType(T) THEN "handleSlice" ELSE "handleVar"

\* Bind's type switch: the routine the target's type is handed to.  Under
\* binder.go the case of *[]string has an empty body.
Dispatch(b, T) ==
    CASE b = "binding.go" -> IF IsSliceType(T) THEN "handleSlice" ELSE "handleVar"
      [] b = "binder.go" /\ T = "[]string" -> "none"
      [] b = "binder.go" /\ T \in {"int", "time.Time"} -> "handleVar"

\* instances one call of the parser allocates
Allocs(T) == IF T = "*net.IP" THEN 1 ELSE 0

\* os.Getenv: the value of a name that is present, the empty string otherwise
Getenv(name) == IF name \in envSet THEN env[name] ELSE Empty

\* the line handleVar / handleSlice write on an environment failure
EnvDiag(name, T) ==
    [text |-> "Unable to parse env-variable %s as type %T", name |-> name,
     typ |-> TypeName(T)]

Failure(src, name, raw) == [src |-> src, name |-> name, raw |-> raw]

\* ------------------------------------------------------ resolution pipeline
\* handleVar's environment half without the envVal != "" test
handleVarEnv_NoEmptyCheck(b, T, st) ==
    LET envVal == Getenv(b.envName)
        r      == Parser(T, envVal, st.top)
        st1    == [st EXCEPT !.top = @ + Allocs(T), !.calls = Append(@, envVal)]
    IN  IF r.err
        THEN LET st2 == [st1 EXCEPT !.out = Append(@, EnvDiag(b.envName, T)),
                                    !.fails = Append(@, Failure("env", b.envName, envVal))]
             IN  IF ~isTestEnv
                 THEN [st2 EXCEPT !.halt = "exit2"]
                 ELSE [st2 EXCEPT !.val = r.v]
        ELSE [st1 EXCEPT !.val = r.v]

\* handleVar's environment half that stores the result instead of exiting
handleVarEnv_NoExit(b, T, st) ==
    LET envVal == Getenv(b.envName)
        r      == Parser(T, envVal, st.top)
        st1    == [st EXCEPT !.top = @ + Allocs(T), !.calls = Append(@, envVal)]
    IN  IF envVal = Empty THEN st
        ELSE IF r.err
        THEN [st1 EXCEPT !.out = Append(@, EnvDiag(b.envName, T)),
                         !.fails = Append(@, Failure("env", b.envName, envVal)),
                         !.val = r.v]
        ELSE [st1 EXCEPT !.val = r.v]

\* handleVar's environment half storing only non-zero results
handleVarEnv_SkipZero(b, T, st) ==
    LET envVal == Getenv(b.envName)
        r      == Parser(T, envVal, st.top)
        st1    == [st EXCEPT !.top = @ + Allocs(T), !.calls = Append(@, envVal)]
    IN  IF envVal = Empty THEN st
        ELSE IF r.err
        THEN LET st2 == [st1 EXCEPT !.out = Append(@, EnvDiag(b.envName, T)),
                                    !.fails = Append(@, Failure("env", b.envName, envVal))]
             IN  IF ~isTestEnv
                 THEN [st2 EXCEPT !.halt = "exit2"]
                 ELSE [st2 EXCEPT !.val = r.v]
        ELSE IF r.v = Zero(T) THEN st1
        ELSE [st1 EXCEPT !.val = r.v]

\* the raw strings the command line gives for flag name n, in order
RECURSIVE ArgsFor(_, _)
ArgsFor(n, i) ==
    IF i > Len(args) THEN << >>
    ELSE (IF args[i].name = n THEN <<args[i].raw>> ELSE << >>) \o ArgsFor(n, i + 1)

\* handleVar's environment half followed by an immediate parse of the
\* flag's value from the command line
handleVarEnv_EagerFlag(b, T, st) ==
    LET envVal == Getenv(b.envName)
        r      == Parser(T, envVal, st.top)
        st1    == [st EXCEPT !.top = @ + Allocs(T), !.calls = Append(@, envVal)]
        st3    == IF envVal = Empty THEN st
                  ELSE IF r.err
                  THEN LET st2 == [st1 EXCEPT
                                     !.out = Append(@, EnvDiag(b.envName, T)),
                                     !.fails = Append(@, Failure("env", b.envName, envVal))]
                       IN  IF ~isTestEnv
                           THEN [st2 EXCEPT !.halt = "exit2"]
                           ELSE [st2 EXCEPT !.val = r.v]
                  ELSE [st1 EXCEPT !.val = r.v]
        given  == ArgsFor(b.flagName, 1)
        f      == Parser(T, given[Len(given)], st3.top)
    IN  IF st3.halt = "running" /\ given # << >> /\ ~f.err
        THEN [st3 EXCEPT !.val = f.v, !.top = @ + Allocs(T)]
        ELSE st3

\* The environment half of handleVar.  st = [val, top, out, halt, fails, calls]
\* is the target, the allocation count, the output, the process state, the
\* failure history and the raw strings given to the parser.
handleVarEnv(b, T, st) ==
    LET envVal == Getenv(b.envName)
        r      == Parser(T, envVal, st.top)
        st1    == [st EXCEPT !.top = @ + Allocs(T), !.calls = Append(@, envVal)]
    IN  IF envVal = Empty THEN st
        ELSE IF r.err
        THEN LET st2 == [st1 EXCEPT !.out = Append(@, EnvDiag(b.envName, T)),
                                    !.fails = Append(@, Failure("env", b.envName, envVal))]
             IN  IF ~isTestEnv
                 THEN [st2 EXCEPT !.halt = "exit2"]
                 ELSE [st2 EXCEPT !.val = r.v]
        ELSE [st1 EXCEPT !.val = r.v]

\* The loop of the environment half of handleSlice over parts[i..].
RECURSIVE envSliceLoop(_, _, _, _, _)
envSliceLoop(b, T, parts, i, st) ==
    IF i > Len(parts) THEN st
    ELSE LET r   == Parser(T, parts[i], st.top)
             st1 == [st EXCEPT !.top = @ + Allocs(T), !.calls = Append(@, parts[i])]
         IN  IF r.err
             THEN LET st2 == [st1 EXCEPT
                                !.out = Append(@, EnvDiag(b.envName, T)),
                                !.fails = Append(@, Failure("env", b.envName, parts[i]))]
                  IN  IF ~isTestEnv
                      THEN [st2 EXCEPT !.halt = "exit2"]
                      ELSE envSliceLoop(b, T, parts, i + 1,
                                        [st2 EXCEPT !.val = Append(@, r.v)])
             ELSE envSliceLoop(b, T, parts, i + 1, [st1 EXCEPT !.val = Append(@, r.v)])

\* handleSlice's environment half splitting at the package's separator
\* instead of the binding's
handleSliceEnv_GlobalSep(b, T, st) ==
    LET envVal == Getenv(b.envName)
    IN  IF envVal = Empty THEN st
        ELSE envSliceLoop(b, T, Split(envVal, SliceSeparator), 1, st)

\* handleSlice's environment half without the envVal != "" test
handleSliceEnv_NoEmptyCheck(b, T, st) ==
    envSliceLoop(b, T, Split(Getenv(b.envName), b.sliceSep), 1, st)

\* The environment half of handleSlice.
handleSliceEnv(b, T, st) ==
    LET envVal == Getenv(b.envName)
    IN  IF envVal = Empty THEN st
        ELSE envSliceLoop(b, T, Split(envVal, b.sliceSep), 1, st)

\* handleVar's callback assigning before it looks at the error
varCallback_StoreFirst(e, s, cs) ==
    LET r == Parser(e.T, s, cs.top)
    IN  [cs EXCEPT !.top = @ + Allocs(e.T), !.val = r.v, !.err = r.err]

\* the callback handleVar hands to flag.Func: cs = [val, top, err]
varCallback(e, s, cs) ==
    LET r == Parser(e.T, s, cs.top)
    IN  IF r.err
        THEN [cs EXCEPT !.top = @ + Allocs(e.T), !.err = TRUE]
        ELSE [cs EXCEPT !.top = @ + Allocs(e.T), !.val = r.v]

RECURSIVE sliceCallbackLoop(_, _, _, _)

\* the loop of handleSlice's callback going on after a malformed element
sliceCallbackLoop_SkipsBad(e, parts, i, cs) ==
    IF i > Len(parts) THEN cs
    ELSE LET r == Parser(e.T, parts[i], cs.top)
         IN  IF r.err
             THEN sliceCallbackLoop(e, parts, i + 1,
                      [cs EXCEPT !.top = @ + Allocs(e.T), !.err = TRUE])
             ELSE sliceCallbackLoop(e, parts, i + 1,
                      [cs EXCEPT !.top = @ + Allocs(e.T), !.val = Append(@, r.v)])

\* the loop of the callback handleSlice hands to flag.Func
sliceCallbackLoop(e, parts, i, cs) ==
    IF i > Len(parts) THEN cs
    ELSE LET r == Parser(e.T, parts[i], cs.top)
         IN  IF r.err
             THEN [cs EXCEPT !.top = @ + Allocs(e.T), !.err = TRUE]
             ELSE sliceCallbackLoop(e, parts, i + 1,
                      [cs EXCEPT !.top = @ + Allocs(e.T), !.val = Append(@, r.v)])

\* handleSlice's callback starting over from an empty sequence
sliceCallback_Replace(e, s, cs) ==
    sliceCallbackLoop(e, Split(s, e.sliceSep), 1, [cs EXCEPT !.val = << >>])

sliceCallback(e, s, cs) == sliceCallbackLoop(e, Split(s, e.sliceSep), 1, cs)

\* Set of the value flag.IntVar registers: ParseInt(s, 0, strconv.IntSize),
\* then the assignment, then the return of the error
intValueSet(e, s, cs) ==
    LET r == ParseIntBase0(s)
    IN  [cs EXCEPT !.val = r.v, !.err = r.err]

\* the callback registered for flag set entry e, applied to raw string s
Callback(e, s, cs) ==
    IF e.std THEN intValueSet(e, s, cs)
    ELSE IF IsSliceType(e.T) THEN sliceCallback(e, s, cs)
    ELSE varCallback(e, s, cs)

\* the lines the flag package writes before it gives up
FlagDiag(text, name) == [text |-> text, name |-> name, typ |-> ""]

\* a registry that accepts a second definition of a name
Redefined_Accepted(flagName) == FALSE

\* flag.Func on flag.CommandLine: a second definition of a name panics
Redefined(flagName) == Registered(flagName)

\* ------------------------------------------------------------------ actions
\* ErrorHandlerFunc = h
SetErrorHandler(h) ==
    /\ halt = "running"
    /\ \A t \in Targets : desc[t].state = "none"
    /\ h # ErrorHandlerFunc
    /\ ErrorHandlerFunc' = h
    /\ UNCHANGED <<build, env, envSet, isTestEnv, desc, target, flagSet, output, halt,
                   heapTop, declared, args, parses, failures, handlerCalls, delivered,
                   afterBind, envParsed, beforeBind>>

\* Var(&t), or VarFunc(&t, parser) for the variable with a custom parser
Var(t) ==
    /\ halt = "running"
    /\ desc[t].state = "none"
    /\ t \in declared
    /\ desc' = [desc EXCEPT ![t] = NewBinding(TypeOf(t))]
    /\ UNCHANGED <<build, env, envSet, ErrorHandlerFunc, isTestEnv, target, flagSet,
                   output, halt, heapTop, declared, args, parses, failures,
                   handlerCalls, delivered, afterBind, envParsed, beforeBind>>

\* the assignments of the chain methods to descriptor b
Binding_WithDefault(b, val) == [b EXCEPT !.def = val]

Binding_WithFlagUsage(b, usage) == [b EXCEPT !.flagUsage = usage]

\* WithSliceSeparator that also puts the layout back to the package's
Binding_WithSliceSeparator_ResetsLayout(b, sep) ==
    [b EXCEPT !.sliceSep = sep, !.timeLayout = TimeLayout]

Binding_WithSliceSeparator(b, sep) == [b EXCEPT !.sliceSep = sep]

Binding_WithTimeLayout(b, layout) == [b EXCEPT !.timeLayout = layout]

\* b.WithDefault(d)
WithDefault(t, d) ==
    /\ halt = "running"
    /\ desc[t].state = "var"
    /\ desc' = [desc EXCEPT ![t] = Binding_WithDefault(@, d)]
    /\ UNCHANGED <<build, env, envSet, ErrorHandlerFunc, isTestEnv, target, flagSet,
                   output, halt, heapTop, declared, args, parses, failures,
                   handlerCalls, delivered, afterBind, envParsed, beforeBind>>

\* b.WithSliceSeparator(sep), a method of Binding only
WithSliceSeparator(t, sep) ==
    /\ halt = "running"
    /\ desc[t].state = "var"
    /\ TypeOf(t) # "VarFunc[int64]"
    /\ desc' = [desc EXCEPT ![t] = Binding_WithSliceSeparator(@, sep)]
    /\ UNCHANGED <<build, env, envSet, ErrorHandlerFunc, isTestEnv, target, flagSet,
                   output, halt, heapTop, declared, args, parses, failures,
                   handlerCalls, delivered, afterBind, envParsed, beforeBind>>

\* b.WithFlagUsage(usage)
WithFlagUsage(t, usage) ==
    /\ halt = "running"
    /\ desc[t].state = "var"
    /\ desc' = [desc EXCEPT ![t] = Binding_WithFlagUsage(@, usage)]
    /\ UNCHANGED <<build, env, envSet, ErrorHandlerFunc, isTestEnv, target, flagSet,
                   output, halt, heapTop, declared, args, parses, failures,
                   handlerCalls, delivered, afterBind, envParsed, beforeBind>>

\* b.WithTimeLayout(layout) (WithTimeFormat in binder.go), a method of Binding only
WithTimeLayout(t, layout) ==
    /\ halt = "running"
    /\ desc[t].state = "var"
    /\ TypeOf(t) # "VarFunc[int64]"
    /\ desc' = [desc EXCEPT ![t] = Binding_WithTimeLayout(@, layout)]
    /\ UNCHANGED <<build, env, envSet, ErrorHandlerFunc, isTestEnv, target, flagSet,
                   output, halt, heapTop, declared, args, parses, failures,
                   handlerCalls, delivered, afterBind, envParsed, beforeBind>>

\* a chain method called on a descriptor kept after its Bind:
\* b := Var(&v); b.Bind(...); b.WithDefault(d)
LateWithDefault(t, d) ==
    /\ halt = "running"
    /\ desc[t].state = "bound"
    /\ desc' = [desc EXCEPT ![t] = Binding_WithDefault(@, d)]
    /\ UNCHANGED <<build, env, envSet, ErrorHandlerFunc, isTestEnv, target, flagSet,
                   output, halt, heapTop, declared, args, parses, failures,
                   handlerCalls, delivered, afterBind, envParsed, beforeBind>>

LateWithSliceSeparator(t, sep) ==
    /\ halt = "running"
    /\ desc[t].state = "bound"
    /\ desc' = [desc EXCEPT ![t] = Binding_WithSliceSeparator(@, sep)]
    /\ UNCHANGED <<build, env, envSet, ErrorHandlerFunc, isTestEnv, target, flagSet,
                   output, halt, heapTop, declared, args, parses, failures,
                   handlerCalls, delivered, afterBind, envParsed, beforeBind>>

LateWithTimeLayout(t, layout) ==
    /\ halt = "running"
    /\ desc[t].state = "bound"
    /\ desc' = [desc EXCEPT ![t] = Binding_WithTimeLayout(@, layout)]
    /\ UNCHANGED <<build, env, envSet, ErrorHandlerFunc, isTestEnv, target, flagSet,
                   output, halt, heapTop, declared, args, parses, failures,
                   handlerCalls, delivered, afterBind, envParsed, beforeBind>>

\* Bind's first statement, *b.p = b.def, that keeps the variable's old value
bindStart_KeepPrior(t, b) ==
    [val |-> target[t], top |-> heapTop, out |-> output, halt |-> "running",
     fails |-> failures, calls |-> << >>]

\* Bind's first statement, *b.p = b.def: the pipeline state it leaves
bindStart(t, b) ==
    [val |-> b.def, top |-> heapTop, out |-> output, halt |-> "running",
     fails |-> failures, calls |-> << >>]

\* The parser Bind builds for a variable of type T: binding.go makes the
\* time parser from b.timeLayout at once, parsers.Time(b.timeLayout); the
\* closure of binder.go keeps b and reads b.timeFormat when it is called.
ParseType(bld, b, T) ==
    IF T = "time.Time" /\ bld = "binding.go" THEN TimeT(b.timeLayout) ELSE T

\* whether Bind passes a setter of the flag package to handleVar: binder.go
\* passes flagPkg.IntVar for *int, binding.go has no such argument
stdFlagFunc(bld, T) == bld = "binder.go" /\ T = "int"

\* b.Bind(envName, flagName)
Bind(t, envName, flagName) ==
    /\ halt = "running"
    /\ desc[t].state = "var"
    /\ LET T    == TypeOf(t)
           b    == [desc[t] EXCEPT !.state = "bound", !.envName = envName,
                                   !.flagName = flagName]
           st0  == bindStart(t, b)
           kind == Dispatch(build, T)
           PT   == ParseType(build, b, T)
           st   == CASE kind = "handleSlice" -> handleSliceEnv(b, PT, st0)
                     [] kind = "handleVar"   -> handleVarEnv(b, PT, st0)
                     [] kind = "none"        -> st0
           reg  == kind # "none" /\ st.halt = "running" /\ flagName # ""
       IN  /\ desc' = [desc EXCEPT ![t] = b]
           /\ target' = [target EXCEPT ![t] = st.val]
           /\ afterBind' = [afterBind EXCEPT ![t] = st.val]
           /\ envParsed' = [envParsed EXCEPT ![t] = st.calls]
           /\ beforeBind' = [beforeBind EXCEPT ![t] = target[t]]
           /\ heapTop' = st.top
           /\ failures' = st.fails
           /\ IF reg /\ Redefined(flagName)
              THEN /\ output' = Append(st.out, FlagDiag("flag redefined: %s", flagName))
                   /\ halt' = "panic"
                   /\ flagSet' = flagSet
              ELSE /\ output' = st.out
                   /\ halt' = st.halt
                   /\ flagSet' = IF reg
                                 THEN [flagSet EXCEPT ![flagName] =
                                         [t |-> t, T |-> PT, sliceSep |-> b.sliceSep,
                                          timeLayout |-> b.timeLayout,
                                          usage |-> b.flagUsage,
                                          std |-> stdFlagFunc(build, T)]]
                                 ELSE flagSet
    /\ UNCHANGED <<build, env, envSet, ErrorHandlerFunc, isTestEnv, declared, args,
                   parses, handlerCalls, delivered>>

RECURSIVE parseArgs(_, _, _)

\* FlagSet.Parse whose callbacks clear every variable but their own
parseArgs_ClearsOthers(as, i, ps) ==
    IF i > Len(as) THEN ps
    ELSE LET a == as[i]
         IN  IF ~Registered(a.name)
             THEN [ps EXCEPT
                     !.out = Append(@, FlagDiag("flag provided but not defined: -%s", a.name)),
                     !.halt = "exit2"]
             ELSE LET e   == flagSet[a.name]
                      cs  == Callback(e, a.raw, [val |-> ps.target[e.t],
                                                 top |-> ps.top, err |-> FALSE])
                      ps1 == [ps EXCEPT
                                !.target = [u \in Targets |->
                                              IF u = e.t THEN cs.val ELSE Zero(TypeOf(u))],
                                !.top = cs.top,
                                !.delivered[e.t] = Append(@, a.raw)]
                  IN  IF cs.err
                      THEN [ps1 EXCEPT
                              !.out = Append(@, FlagDiag("invalid value %q for flag -%s: %v", a.name)),
                              !.fails = Append(@, Failure("flag", a.name, a.raw)),
                              !.halt = "exit2"]
                      ELSE parseArgs(as, i + 1, ps1)

\* FlagSet.Parse over as[i..]: ps = [target, top, out, halt, fails, delivered]
parseArgs(as, i, ps) ==
    IF i > Len(as) THEN ps
    ELSE LET a == as[i]
         IN  IF ~Registered(a.name)
             THEN [ps EXCEPT
                     !.out = Append(@, FlagDiag("flag provided but not defined: -%s", a.name)),
                     !.halt = "exit2"]
             ELSE LET e   == flagSet[a.name]
                      cs  == Callback(e, a.raw, [val |-> ps.target[e.t],
                                                 top |-> ps.top, err |-> FALSE])
                      ps1 == [ps EXCEPT !.target[e.t] = cs.val, !.top = cs.top,
                                        !.delivered[e.t] = Append(@, a.raw)]
                  IN  IF cs.err
                      THEN [ps1 EXCEPT
                              !.out = Append(@, FlagDiag("invalid value %q for flag -%s: %v", a.name)),
                              !.fails = Append(@, Failure("flag", a.name, a.raw)),
                              !.halt = "exit2"]
                      ELSE parseArgs(as, i + 1, ps1)

\* Parse(): flag.Parse() over the process's command line
Parse ==
    /\ halt = "running"
    /\ parses < MaxParses
    /\ LET ps == parseArgs(args, 1, [target |-> target, top |-> heapTop, out |-> output,
                                     halt |-> "running", fails |-> failures,
                                     delivered |-> delivered])
       IN  /\ target' = ps.target
           /\ heapTop' = ps.top
           /\ output' = ps.out
           /\ halt' = ps.halt
           /\ failures' = ps.fails
           /\ delivered' = ps.delivered
    /\ parses' = parses + 1
    /\ UNCHANGED <<build, env, envSet, ErrorHandlerFunc, isTestEnv, desc, flagSet,
                   declared, args, handlerCalls, afterBind, envParsed, beforeBind>>

Next ==
    \/ \E h \in Handlers : SetErrorHandler(h)
    \/ \E t \in Targets : Var(t)
    \/ \E t \in Targets : \E d \in DefPool(TypeOf(t)) : WithDefault(t, d)
    \/ \E t \in Targets : \E sep \in SepPool(TypeOf(t)) : WithSliceSeparator(t, sep)
    \/ \E t \in Targets : \E en \in EnvNames \cup {""} : \E fn \in FlagNames \cup {""} :
          Bind(t, en, fn)
    \/ Parse

Spec == Init /\ [][Next]_vars

\* programs that use every chain method, before and after Bind
NextExt ==
    \/ \E h \in Handlers : SetErrorHandler(h)
    \/ \E t \in Targets : Var(t)
    \/ \E t \in Targets : \E d \in DefPool(TypeOf(t)) : WithDefault(t, d)
    \/ \E t \in Targets : \E u \in UsagePool : WithFlagUsage(t, u)
    \/ \E t \in Targets : \E sep \in SepPool(TypeOf(t)) : WithSliceSeparator(t, sep)
    \/ \E t \in Targets : \E l \in LayoutPool(TypeOf(t)) : WithTimeLayout(t, l)
    \/ \E t \in Targets : \E en \in EnvNames \cup {""} : \E fn \in FlagNames \cup {""} :
          Bind(t, en, fn)
    \/ \E t \in Targets : \E d \in DefPool(TypeOf(t)) : LateWithDefault(t, d)
    \/ \E t \in Targets : \E sep \in SepPool(TypeOf(t)) : LateWithSliceSeparator(t, sep)
    \/ \E t \in Targets : \E l \in LayoutPool(TypeOf(t)) : LateWithTimeLayout(t, l)
    \/ Parse

SpecExt == InitExt /\ [][NextExt]_vars

\* ------------------------------------------------------------------- claims
Bound(t) == desc[t].state = "bound"

\* the raw string Bind read for t's environment name
EnvOf(t) == Getenv(desc[t].envName)

Parts(T, s, sep) == IF IsSliceType(T) THEN Split(s, sep) ELSE <<s>>

\* every element of s parses
Valid(T, s, sep) ==
    \A i \in 1..Len(Parts(T, s, sep)) : ~Parser(T, Parts(T, s, sep)[i], 0).err

\* the parse of s: element by element for a sequence type
Parsed(T, s, sep) ==
    IF IsSliceType(T)
    THEN [i \in 1..Len(Split(s, sep)) |-> Parser(T, Split(s, sep)[i], 0).v]
    ELSE Parser(T, s, 0).v

\* equality of values; two optional values are equal when both are nil or
\* both point to equal instances
Same(T, x, y) ==
    IF T = "*net.IP" THEN x.nil = y.nil /\ x.val = y.val ELSE x = y

EnvValid(t) ==
    /\ EnvOf(t) # Empty
    /\ Valid(TypeOf(t), EnvOf(t), desc[t].sliceSep)

EnvMalformed(t) ==
    /\ EnvOf(t) # Empty
    /\ ~Valid(TypeOf(t), EnvOf(t), desc[t].sliceSep)

\* t's flag occurs on the command line
Supplied(t) == \E i \in 1..Len(args) : args[i].name = desc[t].flagName

\* t's callback has been given exactly the raw string f
FlagGiven(t, f) == delivered[t] = <<f>>

NonFatal == isTestEnv \/ ErrorHandlerFunc \in {"OnErrorIgnore", "OnErrorLogAndContinue"}

\* C1: default d, a valid environment value e and one valid flag value f:
\* after Bind and Parse the target equals parse(f), for every target type.
C1_FlagWins ==
    \A t \in Targets :
        (/\ Bound(t) /\ parses >= 1
         /\ EnvValid(t)
         /\ Len(delivered[t]) = 1
         /\ Valid(TypeOf(t), delivered[t][1], desc[t].sliceSep))
        => Same(TypeOf(t), target[t],
                Parsed(TypeOf(t), delivered[t][1], desc[t].sliceSep))

\* C2: default d, a valid environment value e and no flag value: after Bind
\* and Parse the target equals parse(e), for every target type.
C2_EnvOverDefault ==
    \A t \in Targets :
        (/\ Bound(t) /\ parses >= 1
         /\ EnvValid(t)
         /\ ~Supplied(t) /\ delivered[t] = << >>)
        => Same(TypeOf(t), target[t],
                Parsed(TypeOf(t), EnvOf(t), desc[t].sliceSep))

\* both names bound, the environment variable absent, the flag not supplied
OnlyDefault(t) ==
    /\ Bound(t) /\ parses >= 1
    /\ desc[t].envName # "" /\ desc[t].flagName # ""
    /\ EnvOf(t) = Empty
    /\ ~Supplied(t)

\* C3: with both names bound, the environment variable absent and the flag
\* not supplied, the target equals the default after Bind and Parse.
C3_DefaultStays ==
    \A t \in Targets : OnlyDefault(t) => target[t] = desc[t].def

C3_Witness ==
    \E t \in Targets :
        /\ OnlyDefault(t)
        /\ desc[t].def # Zero(TypeOf(t))
        /\ halt = "running"

\* raw string s parses to the zero value of the scalar type T
ParsesToZero(T, s) == ~Parser(T, s, 0).err /\ Parser(T, s, 0).v = Zero(T)

\* C4: a value that parses to the zero value is applied like any other: from
\* the environment it overwrites the default, from the flag it overwrites
\* the environment value.
C4_ZeroIsSignificant ==
    \A t \in {"port", "debug"} :
        /\ (/\ Bound(t) /\ delivered[t] = << >>
            /\ EnvOf(t) # Empty /\ ParsesToZero(TypeOf(t), EnvOf(t)))
           => target[t] = Zero(TypeOf(t))
        /\ (/\ Bound(t) /\ delivered[t] # << >>
            /\ ParsesToZero(TypeOf(t), delivered[t][Len(delivered[t])]))
           => target[t] = Zero(TypeOf(t))

C4_Witness ==
    /\ Bound("port") /\ desc["port"].def = 5
    /\ EnvOf("port") = <<"1">>
    /\ afterBind["port"] = 1
    /\ delivered["port"] = << <<"0">> >>
    /\ target["port"] = 0

\* the elements of s parsed before its first malformed element
ParsedPrefix(T, s, sep) ==
    LET parts == Split(s, sep)
        bad   == {i \in 1..Len(parts) : Parser(T, parts[i], 0).err}
        k     == IF bad = {} THEN Len(parts) + 1
                 ELSE CHOOSE i \in bad : \A j \in bad : i <= j
    IN  [i \in 1..(k - 1) |-> Parser(T, parts[i], 0).v]

\* C5: under a non-fatal policy a malformed environment value leaves a scalar
\* target at its default.
C5_BadEnvKeepsDefault ==
    \A t \in Targets :
        (/\ ~IsSliceType(TypeOf(t))
         /\ NonFatal
         /\ Bound(t) /\ EnvMalformed(t)
         /\ delivered[t] = << >>)
        => target[t] = desc[t].def

\* Bind met a malformed environment value under the default policy
FatalEnvFailure(t) ==
    /\ Bound(t) /\ EnvMalformed(t)
    /\ ErrorHandlerFunc = "OnErrorExit" /\ ~isTestEnv

BadEnvIsFatal(t) ==
    FatalEnvFailure(t) =>
        /\ halt = "exit2"
        /\ output # << >>
        /\ output[Len(output)] = EnvDiag(desc[t].envName, TypeOf(t))
        /\ target[t] = IF IsSliceType(TypeOf(t))
                       THEN desc[t].def \o
                            ParsedPrefix(TypeOf(t), EnvOf(t), desc[t].sliceSep)
                       ELSE desc[t].def
        /\ \A n \in FlagNames : flagSet[n].t # t
        /\ delivered[t] = << >>

\* C6: under the default policy a malformed environment value makes Bind write
\* the diagnostic and exit with status 2 at once: the failed parser's result
\* is not stored, no flag is registered for the binding, and no step of the
\* program follows the exit.
C6_BadEnvIsFatal ==
    /\ [](\A t \in Targets : BadEnvIsFatal(t))
    /\ [][halt = "exit2" => UNCHANGED vars]_vars

C6_Witness ==
    \E t \in Targets :
        /\ FatalEnvFailure(t)
        /\ desc[t].flagName # ""
        /\ desc[t].def # Zero(TypeOf(t))
        /\ halt = "exit2"

\* t's callback was given one raw string, and it is malformed
BadFlagGiven(t) ==
    /\ Bound(t)
    /\ Len(delivered[t]) = 1
    /\ ~Valid(TypeOf(t), delivered[t][1], desc[t].sliceSep)

\* C7 as stated: a flag value that fails to parse leaves the target at the
\* value it had when Bind returned, for every target type.
C7_BadFlagKeepsTarget ==
    \A t \in Targets : BadFlagGiven(t) => target[t] = afterBind[t]

\* C7 amended: a flag value that fails to parse leaves a scalar or optional
\* target at the value it had when Bind returned; a sequence target keeps
\* that value as a prefix, followed by the elements parsed before the first
\* malformed one.
C7_BadFlagAmended ==
    \A t \in Targets :
        BadFlagGiven(t) =>
            target[t] = IF IsSliceType(TypeOf(t))
                        THEN afterBind[t] \o
                             ParsedPrefix(TypeOf(t), delivered[t][1], desc[t].sliceSep)
                        ELSE afterBind[t]

C7_Witness ==
    /\ BadFlagGiven("port")
    /\ afterBind["port"] # 0
    /\ target["port"] = afterBind["port"]
    /\ halt = "exit2"

\* C8: every parse failure, from the environment or from a flag, invokes the
\* installed ErrorHandlerFunc with the raw string and the source's name.
C8_HandlerSeesEveryFailure == handlerCalls = failures

\* C9: with ErrorHandlerFunc = OnErrorIgnore an environment parse failure
\* writes no diagnostic and does not end the process.
C9_IgnoreIsSilent ==
    (ErrorHandlerFunc = "OnErrorIgnore" /\ \E t \in Targets : Bound(t) /\ EnvMalformed(t))
    => /\ \A i \in 1..Len(output) :
            output[i].text # "Unable to parse env-variable %s as type %T"
       /\ (halt = "exit2" => parses > 0)

\* C10: for a sequence target under a non-fatal policy, parsing the
\* environment value stops at the first malformed element: nothing at or
\* after it is appended.
C10_BadSliceEnvStops ==
    \A t \in Targets :
        (/\ IsSliceType(TypeOf(t))
         /\ NonFatal
         /\ Bound(t) /\ EnvMalformed(t)
         /\ delivered[t] = << >>)
        => target[t] = desc[t].def \o
                       ParsedPrefix(TypeOf(t), EnvOf(t), desc[t].sliceSep)

\* parts joined by sep (strings.Join)
RECURSIVE Join(_, _)
Join(parts, sep) ==
    IF Len(parts) = 0 THEN Empty
    ELSE IF Len(parts) = 1 THEN parts[1]
    ELSE parts[1] \o sep \o Join(Tail(parts), sep)

\* raw cut at the occurrences of sep that start at the positions in cuts
RECURSIVE CutAt(_, _, _)
CutAt(raw, sep, cuts) ==
    IF cuts = {} THEN <<raw>>
    ELSE LET i == CHOOSE c \in cuts : \A d \in cuts : c <= d
         IN  <<SubSeq(raw, 1, i - 1)>>
             \o CutAt(SubSeq(raw, i + Len(sep), Len(raw)), sep,
                      {c - (i + Len(sep) - 1) : c \in cuts \ {i}})

\* every sequence of element strings that, joined by sep, gives raw
ElementSeqs(raw, sep) ==
    LET occ == {i \in 1..Len(raw) : HasAt(raw, sep, i)}
        ok(cuts) == \A c, d \in cuts : c < d => c + Len(sep) <= d
    IN  {CutAt(raw, sep, cuts) : cuts \in {c \in SUBSET occ : ok(c)}}
        \cup (IF raw = Empty THEN {<< >>} ELSE {})

\* the element-wise parse of parts
ParseEach(T, parts) == [i \in 1..Len(parts) |-> Parser(T, parts[i], 0).v]

AllValid(T, parts) == \A i \in 1..Len(parts) : ~Parser(T, parts[i], 0).err

\* t is a sequence target Bind dispatches, bound with an empty default, and
\* the only value it was given is the one of its environment variable ...
OnlyEnvValue(t) ==
    /\ IsSliceType(TypeOf(t)) /\ Bound(t) /\ desc[t].def = << >>
    /\ Dispatch(build, TypeOf(t)) = "handleSlice"
    /\ desc[t].envName \in envSet
    /\ delivered[t] = << >>

\* ... or the one of a single occurrence of its flag
OnlyFlagValue(t) ==
    /\ IsSliceType(TypeOf(t)) /\ Bound(t) /\ desc[t].def = << >>
    /\ Dispatch(build, TypeOf(t)) = "handleSlice"
    /\ EnvOf(t) = Empty
    /\ Len(delivered[t]) = 1

\* whatever valid element strings give raw when joined by t's separator,
\* the target holds their parses
JoinedRoundTrip(t, raw) ==
    \A parts \in ElementSeqs(raw, desc[t].sliceSep) :
        AllValid(TypeOf(t), parts) => target[t] = ParseEach(TypeOf(t), parts)

\* the same for the element strings Split gives back
SplitRoundTrip(t, raw) ==
    \A parts \in ElementSeqs(raw, desc[t].sliceSep) :
        (AllValid(TypeOf(t), parts) /\ Split(raw, desc[t].sliceSep) = parts)
        => target[t] = ParseEach(TypeOf(t), parts)

RECURSIVE DeliveredElems(_, _)
DeliveredElems(t, n) ==
    IF n = 0 THEN << >>
    ELSE DeliveredElems(t, n - 1)
         \o ParsedPrefix(TypeOf(t), delivered[t][n], desc[t].sliceSep)

\* C12: each invocation of a sequence target's flag callback appends its
\* parsed elements, in order, to the sequence the earlier invocations built:
\* the target is its value at the return of Bind followed by the elements of
\* the first, the second, ... invocation.
C12_CallbackAppends ==
    \A t \in Targets :
        (IsSliceType(TypeOf(t)) /\ Bound(t)) =>
            target[t] = afterBind[t] \o DeliveredElems(t, Len(delivered[t]))

C12_Witness ==
    /\ Bound("ids") /\ afterBind["ids"] = <<9, 1>>
    /\ delivered["ids"] = << <<"7", ",", "0">>, <<"7">> >>
    /\ target["ids"] = <<9, 1, 7, 0, 7>>

\* t is an optional target bound without WithDefault, its environment
\* variable absent and its flag not delivered
OptionalUnset(t) ==
    /\ TypeOf(t) = "*net.IP"
    /\ Bound(t) /\ desc[t].def = NilPtr
    /\ EnvOf(t) = Empty
    /\ delivered[t] = << >>

\* C13: an optional target bound with no default, no environment value and
\* no flag is nil after Bind and after Parse, never a pointer to a
\* zero-valued instance.
C13_OptionalStaysNil ==
    \A t \in Targets : OptionalUnset(t) => target[t] = NilPtr /\ heapTop = 0

C13_Witness ==
    /\ OptionalUnset("ip")
    /\ desc["ip"].envName = "A" /\ "A" \in envSet
    /\ Registered(desc["ip"].flagName)
    /\ parses >= 1 /\ halt = "running"

\* Bind found nothing under t's environment name: the binding has no such
\* name, the variable is unset, or it is set to the empty string
NoEnvValue(t) == Bound(t) /\ EnvOf(t) = Empty

\* C14: an environment variable set to the empty string, an unset one and a
\* binding without environment name are handled alike: the parser is not
\* called, no failure is raised or reported, and the target leaves Bind at
\* its default, also when the parser would accept the empty string.
C14_EmptyEnvIsAbsent ==
    \A t \in Targets :
        NoEnvValue(t) =>
            /\ envParsed[t] = << >>
            /\ afterBind[t] = desc[t].def
            /\ \A i \in 1..Len(failures) :
                   ~(failures[i].src = "env" /\ failures[i].name = desc[t].envName)
            /\ \A i \in 1..Len(output) :
                   output[i] # EnvDiag(desc[t].envName, TypeOf(t))
            /\ handlerCalls = << >>

C14_Witness ==
    /\ build = "binding.go"
    /\ NoEnvValue("tags")
    /\ desc["tags"].envName = "A" /\ "A" \in envSet
    /\ desc["tags"].def = << <<"d">> >>
    /\ target["tags"] = << <<"d">> >>

\* t was bound by a Bind whose type switch has no case body for its type:
\* *[]string under binder.go
Undispatched(t) == Bound(t) /\ build = "binder.go" /\ TypeOf(t) = "[]string"

BindStep(t, fn) ==
    desc[t].state = "var" /\ desc'[t].state = "bound" /\ desc'[t].flagName = fn

\* two finalized bindings name the registered flag fn
SharedFlag(t, u, fn) ==
    /\ t # u /\ Bound(t) /\ Bound(u)
    /\ desc[t].flagName = fn /\ desc[u].flagName = fn
    /\ Registered(fn)

\* C16: a Bind that reaches registration with a flag name already registered
\* fails in that call: the registry keeps the first binding, the process
\* stops there and no parse step follows; two bindings are never both
\* registered under one name.
C16_DuplicateFlagFails ==
    /\ [][\A t \in Targets : \A fn \in FlagNames :
            (BindStep(t, fn) /\ Registered(fn) /\ halt' # "exit2")
            => (halt' = "panic" /\ flagSet' = flagSet)]_vars
    /\ [][halt = "panic" => UNCHANGED vars]_vars
    /\ [](\A t, u \in Targets : \A fn \in FlagNames :
            SharedFlag(t, u, fn) =>
                /\ halt # "running"
                /\ (flagSet[fn].t = t) # (flagSet[fn].t = u))

C16_Witness ==
    \E t, u \in Targets :
        /\ SharedFlag(t, u, "a")
        /\ halt = "panic" /\ parses = 0
        /\ output[Len(output)] = FlagDiag("flag redefined: %s", "a")

\* every element of raw parsed, a failed element giving the parser's result
ParsedAll(T, raw, sep) == ParseEach(T, Split(raw, sep))

\* The value the environment step of t's Bind leaves in a target that held v:
\* v itself without a value or a dispatch case; for a scalar the parser's
\* result, which test mode stores even after a failure; for a sequence v
\* followed by the parsed elements, all of them in test mode and those
\* before the first failure otherwise.
EnvResult(t, v) ==
    LET T   == TypeOf(t)
        raw == EnvOf(t)
        sep == desc[t].sliceSep
    IN  IF raw = Empty \/ Dispatch(build, T) = "none" THEN v
        ELSE IF IsSliceType(T)
        THEN IF isTestEnv THEN v \o ParsedAll(T, raw, sep)
             ELSE v \o ParsedPrefix(T, raw, sep)
        ELSE IF Valid(T, raw, sep) \/ isTestEnv THEN Parsed(T, raw, sep)
        ELSE v

\* C17 as stated: no two finalized bindings share a non-empty
\* environment-variable name.
C17_OneBindingPerEnvName ==
    \A t, u \in Targets :
        (t # u /\ Bound(t) /\ Bound(u) /\ desc[t].envName # "")
        => desc[t].envName # desc[u].envName

\* two finalized bindings name the environment variable n
SharedEnv(t, u, n) ==
    /\ t # u /\ Bound(t) /\ Bound(u)
    /\ desc[t].envName = n /\ desc[u].envName = n

\* C17 amended: environment-variable names are not checked; bindings that
\* share a name are all finalized, and each leaves Bind with the value its
\* own type, default and separator give for the variable's value.
C17_SharedEnvResolves ==
    \A t, u \in Targets : \A n \in EnvNames :
        SharedEnv(t, u, n) =>
            Same(TypeOf(t), afterBind[t], EnvResult(t, desc[t].def))

C17_Witness ==
    /\ SharedEnv("port", "ids", "A")
    /\ afterBind["port"] = 1 /\ afterBind["ids"] = <<9, 1>>
    /\ halt = "running"

C19_DefaultFirst ==
    \A t \in Targets :
        Bound(t) =>
            LET T == TypeOf(t)
                d == desc[t].def
                a == afterBind[t]
            IN  IF IsSliceType(T)
                THEN /\ Len(a) >= Len(d) /\ SubSeq(a, 1, Len(d)) = d
                     /\ Len(a) <= Len(d) + Len(envParsed[t])
                     /\ \A i \in 1..(Len(a) - Len(d)) :
                            a[Len(d) + i] = Parser(T, envParsed[t][i], 0).v
                ELSE (EnvOf(t) = Empty \/ (EnvMalformed(t) /\ ~isTestEnv))
                     => Same(T, a, d)

C19_Witness ==
    /\ Bound("ids") /\ beforeBind["ids"] = <<3>>
    /\ desc["ids"].def = << >> /\ EnvOf("ids") = <<"1">>
    /\ afterBind["ids"] = <<1>>
    /\ halt = "running"

\* The value a scalar pipeline run with parser P leaves in a target with
\* default d, environment value raw and flag values given, delivered in
\* order up to the first that fails: the parse of the last valid flag value,
\* else the parse of the environment value (in test mode also the result
\* returned with a failure), else the default.
Resolve(P(_), d, raw, given, test) ==
    LET e  == P(raw)
        ok == {i \in 1..Len(given) : ~P(given[i]).err}
    IN  IF ok # {} THEN P(given[CHOOSE i \in ok : \A j \in ok : j <= i]).v
        ELSE IF raw = Empty \/ (e.err /\ ~test) THEN d
        ELSE e.v

\* C20: a VarFunc binding goes through the scalar pipeline exactly as a
\* builtin scalar binding does, with the user's parser in the place of the
\* builtin one: the one parser is applied to the environment value and to
\* every flag value, the target holds the parser's result for the winning
\* source (flag over environment over default), a malformed environment
\* value is recorded and reported and ends the run outside test mode, and
\* a malformed flag value is recorded and ends the run.
C20_CustomLikeBuiltin ==
    \A t \in {"port", "customVar"} :
        Bound(t) =>
            LET P(s)  == IF t = "customVar" THEN customParser(s) ELSE Atoi(s)
                raw   == EnvOf(t)
                given == delivered[t]
                n     == Len(given)
            IN  /\ target[t] = Resolve(P, desc[t].def, raw, given, isTestEnv)
                /\ envParsed[t] = IF raw = Empty THEN << >> ELSE <<raw>>
                /\ (raw # Empty /\ P(raw).err) =>
                       /\ \E i \in 1..Len(failures) :
                              failures[i] = Failure("env", desc[t].envName, raw)
                       /\ \E i \in 1..Len(output) :
                              output[i] = EnvDiag(desc[t].envName, TypeOf(t))
                       /\ ~isTestEnv => (halt = "exit2" /\ given = << >>)
                /\ \A i \in 1..n :
                       P(given[i]).err =>
                           /\ i = n /\ halt = "exit2"
                           /\ failures[Len(failures)] =
                                  Failure("flag", desc[t].flagName, given[i])

C20_Witness ==
    /\ Bound("customVar") /\ desc["customVar"].def = 5
    /\ EnvOf("customVar") = <<"1">> /\ afterBind["customVar"] = 10
    /\ delivered["customVar"] = << <<"7">> >>
    /\ target["customVar"] = 70
    /\ halt = "running"

\* the raw strings handed to t's parser so far, by Bind and by the callback
ParserCalls(t) == envParsed[t] \o delivered[t]

\* C26: the optional adapter allocates exactly when the wrapped parser
\* succeeds, one new instance per successful parse, and an optional target
\* never points to a zero-valued instance left by a failed parse.
C26_AllocatesOnSuccessOnly ==
    \A t \in Targets :
        (TypeOf(t) = "*net.IP" /\ Bound(t) /\ declared = {t}) =>
            /\ heapTop = Cardinality({i \in 1..Len(ParserCalls(t)) :
                                        ~IP(ParserCalls(t)[i]).err})
            /\ target[t].nil \/ target[t].val # NilIP

\* C30: every type the constraint admits has a dispatch case: Bind reads a
\* non-empty environment value of every finalized binding, and registers
\* its flag whenever the run goes on after Bind.
C30_DispatchTotal ==
    \A t \in Targets :
        Bound(t) =>
            /\ EnvOf(t) # Empty => envParsed[t] # << >>
            /\ (desc[t].flagName # "" /\ halt = "running" /\ parses = 0)
               => Registered(desc[t].flagName)

\* C29: a Parse that follows a completed Parse over the same command line
\* leaves every target equal to what it was (an optional target pointing to
\* an equal instance).
C29_ParseIdempotent ==
    [][(parses >= 1 /\ parses' = parses + 1)
       => \A t \in Targets : Same(TypeOf(t), target'[t], target[t])]_vars

\* the command line names t's flag
OnCommandLine(t) == \E i \in 1..Len(args) : args[i].name = desc[t].flagName

\* C28: bindings do not touch each other's variables: a builder call or a
\* Bind on one descriptor leaves every other variable and its callback
\* history as they were, and the variable of a finalized binding changes
\* only in a Parse whose command line names that binding's own flag.
C28_BindingsIndependent ==
    [][\A t, u \in Targets :
          t # u =>
              /\ desc'[t] # desc[t]
                 => (target'[u] = target[u] /\ delivered'[u] = delivered[u])
              /\ (Bound(u) /\ target'[u] # target[u])
                 => (parses' = parses + 1 /\ OnCommandLine(u))]_vars

C28_Witness ==
    /\ Bound("port") /\ Bound("ids")
    /\ desc["port"].envName = "A" /\ desc["port"].flagName = "a"
    /\ desc["ids"].envName = "B" /\ desc["ids"].flagName = "b"
    /\ parses = 1 /\ halt = "running"
    /\ delivered["port"] = << <<"7">> >> /\ target["port"] = 7
    /\ target["ids"] = afterBind["ids"] \o <<7, 0>>

\* the position of the first element of parts that T's parser rejects
FirstBad(T, parts) ==
    CHOOSE k \in 1..Len(parts) :
        /\ Parser(T, parts[k], 0).err
        /\ \A j \in 1..(k - 1) : ~Parser(T, parts[j], 0).err

\* C24: when the flag value given to a sequence target's callback has its
\* first malformed element at position k, the target is what it was before
\* that invocation followed by exactly the k-1 elements parsed before it;
\* nothing from position k on is appended, the elements appended stay, and
\* the whole value is recorded as the failed flag value, which ends the run.
C24_PartialFlagAppend ==
    \A t \in Targets :
        (/\ IsSliceType(TypeOf(t)) /\ Bound(t) /\ delivered[t] # << >>
         /\ ~Valid(TypeOf(t), delivered[t][Len(delivered[t])], flagSet[desc[t].flagName].sliceSep))
        => LET T     == TypeOf(t)
               n     == Len(delivered[t])
               parts == Split(delivered[t][n], flagSet[desc[t].flagName].sliceSep)
               k     == FirstBad(T, parts)
           IN  /\ target[t] = (afterBind[t] \o DeliveredElems(t, n - 1))
                                 \o [i \in 1..(k - 1) |-> Parser(T, parts[i], 0).v]
               /\ failures[Len(failures)] =
                      Failure("flag", desc[t].flagName, delivered[t][n])
               /\ halt = "exit2"

C24_Witness ==
    /\ Bound("ids") /\ afterBind["ids"] = <<9>>
    /\ delivered["ids"] = << <<"7">>, <<"7", ",", "x">> >>
    /\ target["ids"] = <<9, 7, 7>>
    /\ halt = "exit2"

\* C23: under a non-fatal policy a malformed environment value does not end
\* the binding's pipeline: the policy is invoked for it, Bind returns with
\* the flag registered, and a valid flag value delivered by Parse is stored.
C23_BadEnvGoesOn ==
    \A t \in Targets :
        (NonFatal /\ declared = {t} /\ ~IsSliceType(TypeOf(t))
         /\ Bound(t) /\ EnvMalformed(t))
        => /\ \E i \in 1..Len(handlerCalls) :
                  handlerCalls[i] = Failure("env", desc[t].envName, EnvOf(t))
           /\ parses = 0 => halt = "running"
           /\ desc[t].flagName # "" => Registered(desc[t].flagName)
           /\ (/\ delivered[t] # << >>
               /\ Valid(TypeOf(t), delivered[t][Len(delivered[t])], Empty))
              => Same(TypeOf(t), target[t],
                      Parsed(TypeOf(t), delivered[t][Len(delivered[t])], Empty))

\* the diagnostic a logging policy owes to a failure of source src ("env" or
\* "flag") under name n for a variable of type T
PolicyDiag(src, n, T) ==
    [text |-> IF src = "env" THEN "unable to parse env-variable %q as type %T"
              ELSE "unable to parse flag %q as type %T",
     name |-> n, typ |-> TypeName(T)]

\* the number of lines of the output equal to line
Written(line) == Cardinality({i \in 1..Len(output) : output[i] = line})

\* C22: under a logging policy every parse failure of a program's one
\* binding leaves exactly one diagnostic in the output, naming the source
\* that failed: the environment variable for an environment failure, the
\* flag for a flag failure.
C22_DiagnosticNamesSource ==
    \A t \in Targets :
        (/\ declared = {t} /\ Bound(t)
         /\ ErrorHandlerFunc \in {"OnErrorExit", "OnErrorLogAndContinue"})
        => \A i \in 1..Len(failures) :
               Written(PolicyDiag(failures[i].src, failures[i].name, TypeOf(t)))
                   = Cardinality({j \in 1..Len(failures) : failures[j] = failures[i]})

\* what callbacks made by flag.Func with parser P leave in a scalar target
\* that held start, after the flag values given: the parse of the last
\* valid one, start when there is none
FuncResult(P(_), start, given) ==
    LET ok == {i \in 1..Len(given) : ~P(given[i]).err}
    IN  IF ok = {} THEN start
        ELSE P(given[CHOOSE i \in ok : \A j \in ok : j <= i]).v

\* C25: an int flag registered through the flag package's setter leaves the
\* target as the flag.Func callback with the binding's parser would: for
\* every default, environment value and delivered flag values, malformed
\* ones included.
C25_FastPathSameAsCallback ==
    \A t \in Targets :
        (Bound(t) /\ Registered(desc[t].flagName) /\ flagSet[desc[t].flagName].std)
        => target[t] = FuncResult(Atoi, afterBind[t], delivered[t])

\* the elements of the first n flag values given, each split at sep
RECURSIVE SplitAll(_, _, _)
SplitAll(given, sep, n) ==
    IF n = 0 THEN << >> ELSE SplitAll(given, sep, n - 1) \o Split(given[n], sep)

\* C27: the callback Bind registered works with the settings the descriptor
\* had when Bind ran, whatever chain methods are called on the descriptor
\* afterwards: a time flag value is parsed with the layout of that moment,
\* a sequence flag value is split at the separator of that moment.
C27_CallbackFixedAtBind ==
    \A t \in Targets :
        (Bound(t) /\ Registered(desc[t].flagName))
        => LET e    == flagSet[desc[t].flagName]
               P(s) == Time(e.timeLayout, s)
           IN  /\ TypeOf(t) = "time.Time"
                  => target[t] = FuncResult(P, afterBind[t], delivered[t])
               /\ TypeOf(t) = "[]string"
                  => target[t] = afterBind[t]
                                   \o SplitAll(delivered[t], e.sliceSep, Len(delivered[t]))

\* descriptors a and b agree on every field but f
SameBut(a, b, f) == \A g \in DOMAIN a \ {f} : a[g] = b[g]

\* this step is a chain method called on t's descriptor
ChainStep(t) == desc'[t] # desc[t] /\ desc'[t].state = desc[t].state

====
